---- MODULE Spec2Model ----
(***************************************************************************)
(* Model of the Hedera WalletConnect wallet adapter                        *)
(* (src/src/lib/wallet/index.ts): the session-request parser               *)
(* (validateParam, parseSessionRequest), the two entry points              *)
(* (executeSessionRequest, rejectSessionRequest) and the six JSON-RPC      *)
(* handlers, with the signer's asynchronous operations completing in any   *)
(* order and with any outcome.                                             *)
(***************************************************************************)
EXTENDS Integers, Sequences, FiniteSets, TLC

(***************************************************************************)
(* Bounds of the model.                                                    *)
(***************************************************************************)
\* longest transaction array of a request
MaxBatch == 2

(***************************************************************************)
(* JavaScript values, as far as the parser tells them apart.  A value is a *)
(* record: t is its kind, s its text (for scalars), elems its elements     *)
(* (for arrays).                                                           *)
(***************************************************************************)
JsVal(t, s) == [t |-> t, s |-> s, elems |-> <<>>]
UNDEF == JsVal("undefined", "")
NULL == JsVal("null", "")
Num(s) == JsVal("number", s)
Bool(s) == JsVal("boolean", s)
Str(s) == JsVal("string", s)
\* a plain object used as a field value, such as {bytes: "..."}
ObjBytes == JsVal("object", "{bytes}")
Arr(seq) == [t |-> "array", s |-> "", elems |-> seq]

\* the typeof operator
TypeOf(v) ==
    IF v.t \in {"null", "array", "object"} THEN "object" ELSE v.t

IsArray(v) == v.t = "array"

\* ToBoolean, as applied by `if (params)`
Truthy(v) ==
    CASE v.t \in {"undefined", "null"} -> FALSE
      [] v.t = "number" -> v.s # "0"
      [] v.t = "boolean" -> v.s = "true"
      [] v.t = "string" -> v.s # ""
      [] OTHER -> TRUE

(***************************************************************************)
(* Wire method names.                                                      *)
(***************************************************************************)
HederaJsonRpcMethod ==
    [ GetNodeAddresses |-> "hedera_getNodeAddresses",
      ExecuteTransaction |-> "hedera_executeTransaction",
      SignMessage |-> "hedera_signMessage",
      SignQueryAndSend |-> "hedera_signQueryAndSend",
      SignAndExecuteTransaction |-> "hedera_signAndExecuteTransaction",
      SignTransaction |-> "hedera_signTransaction" ]

WireMethods == { HederaJsonRpcMethod[k] : k \in DOMAIN HederaJsonRpcMethod }

(***************************************************************************)
(* Errors.  field/index name the parameter of an invalid-params error      *)
(* (index -1: no index), expected/got are the types its message reports.   *)
(***************************************************************************)
Err(kind, field, index, expected, got) ==
    [kind |-> kind, field |-> field, index |-> index,
     expected |-> expected, got |-> got]
NoErr == Err("none", "", -1, "", "")
PlainErr(kind) == Err(kind, "", -1, "", "")

(***************************************************************************)
(* Codec and account identifiers.  The wire strings "b64:x" are the base64 *)
(* forms; decoding yields the domain object, or fails.                     *)
(***************************************************************************)
\* decoded transactions: txNoId has no transactionId set, txNoNode no node
\* account ids
Transactions ==
    [ txA |-> [name |-> "txA", transactionId |-> "0.0.12345@1", nodeAccountIds |-> <<"0.0.3">>, signed |-> FALSE],
      txB |-> [name |-> "txB", transactionId |-> "0.0.12345@2", nodeAccountIds |-> <<"0.0.4">>, signed |-> FALSE],
      txNoId |-> [name |-> "txNoId", transactionId |-> "", nodeAccountIds |-> <<"0.0.3">>, signed |-> FALSE],
      txNoNode |-> [name |-> "txNoNode", transactionId |-> "0.0.12345@3", nodeAccountIds |-> <<>>, signed |-> FALSE] ]

TxWire == [ s \in {"b64:txA", "b64:txB", "b64:txNoId", "b64:txNoNode"} |->
              CASE s = "b64:txA" -> "txA"
                [] s = "b64:txB" -> "txB"
                [] s = "b64:txNoId" -> "txNoId"
                [] s = "b64:txNoNode" -> "txNoNode" ]

\* [ok, value]: the decoded transaction, or a decode failure
base64StringToTransaction(s) ==
    IF s \in DOMAIN TxWire
    THEN [ok |-> TRUE, value |-> Transactions[TxWire[s]]]
    ELSE [ok |-> FALSE, value |-> Transactions.txA]

base64StringToQuery(s) ==
    IF s = "b64:qInfo"
    THEN [ok |-> TRUE, value |-> "AccountInfoQuery"]
    ELSE [ok |-> FALSE, value |-> ""]

base64StringToMessage(s) ==
    IF s = "b64:hello"
    THEN [ok |-> TRUE, value |-> "hello"]
    ELSE [ok |-> FALSE, value |-> ""]

NoAccount == [t |-> "undefined", shard |-> 0, realm |-> 0, num |-> 0]

\* AccountId.fromString: "shard.realm.num", or a failure
AccountIdFromString(s) ==
    IF s = "0.0.12345"
    THEN [ok |-> TRUE, value |-> [t |-> "AccountId", shard |-> 0, realm |-> 0, num |-> 12345]]
    ELSE [ok |-> FALSE, value |-> NoAccount]

(***************************************************************************)
(* Request bodies of a descriptor: absent, transactions, bytes or a query. *)
(***************************************************************************)
Body(t, txs, s) == [t |-> t, txs |-> txs, s |-> s]
NoBody == Body("undefined", <<>>, "")

(***************************************************************************)
(* validateParam(name, value, expectedType): NoErr when it returns, the    *)
(* error it throws otherwise.                                              *)
(***************************************************************************)
\* variant: any object passes for an array
validateParam_ObjectIsArray(field, index, value, expectedType) ==
    IF expectedType = "array" /\ TypeOf(value) = "object" THEN NoErr
    ELSE IF TypeOf(value) = expectedType THEN NoErr
    ELSE Err("INVALID_PARAMS", field, index, expectedType, TypeOf(value))

validateParam(field, index, value, expectedType) ==
    IF expectedType = "array" /\ IsArray(value) THEN NoErr
    ELSE IF TypeOf(value) = expectedType THEN NoErr
    ELSE Err("INVALID_PARAMS", field, index, expectedType, TypeOf(value))

(***************************************************************************)
(* parseSessionRequest.  The try block is a chain of steps over            *)
(*   [thrown, body, signerAccountId, trace]:                               *)
(* a step does nothing once an error is thrown; body and signerAccountId   *)
(* are the function's locals, assigned as the code assigns them; trace     *)
(* lists the validations and conversions performed, in order.              *)
(***************************************************************************)
FieldNames ==
    {"signedTransaction", "signerAccountId", "message", "query", "transaction", "messages"}

NoFields == [f \in FieldNames |-> UNDEF]

\* request params: a scalar, or an object with fields
Params(t, s, f) == [t |-> t, s |-> s, f |-> f]
ObjParams(f) == Params("object", "", f)

\* _params?.field
Get(params, field) ==
    IF params.t = "object" THEN params.f[field] ELSE UNDEF

Tr(op, field, index) == [op |-> op, field |-> field, index |-> index]

TryStart ==
    [thrown |-> NoErr, body |-> NoBody, signerAccountId |-> NoAccount, trace |-> <<>>]

\* this.validateParam(field, _params?.field, expectedType)
StepValidate(st, field, value, expectedType) ==
    IF st.thrown # NoErr THEN st
    ELSE [st EXCEPT !.thrown = validateParam(field, -1, value, expectedType),
                    !.trace = Append(@, Tr("validateParam", field, -1))]

\* the 1-based position of the first element of seq that is no string, 0 if none
FirstNonString(seq) ==
    IF \E i \in 1..Len(seq) : TypeOf(seq[i]) # "string"
    THEN CHOOSE i \in 1..Len(seq) :
            /\ TypeOf(seq[i]) # "string"
            /\ \A j \in 1..(i-1) : TypeOf(seq[j]) = "string"
    ELSE 0

\* variant: the element index reported counts from one
StepValidateEach_OneBased(st, field, value) ==
    IF st.thrown # NoErr THEN st
    ELSE LET bad == FirstNonString(value.elems)
             last == IF bad = 0 THEN Len(value.elems) ELSE bad
         IN [st EXCEPT
               !.thrown = IF bad = 0 THEN NoErr
                          ELSE validateParam(field, bad, value.elems[bad], "string"),
               !.trace = @ \o [i \in 1..last |-> Tr("validateParam", field, i)]]

\* _params.field.forEach((x, index) => this.validateParam(`field[${index}]`, x, 'string'))
StepValidateEach(st, field, value) ==
    IF st.thrown # NoErr THEN st
    ELSE LET bad == FirstNonString(value.elems)
             last == IF bad = 0 THEN Len(value.elems) ELSE bad
         IN [st EXCEPT
               !.thrown = IF bad = 0 THEN NoErr
                          ELSE validateParam(field, bad - 1, value.elems[bad], "string"),
               !.trace = @ \o [i \in 1..last |-> Tr("validateParam", field, i - 1)]]

\* variant: the parsed account is checked but not kept
StepAccountId_NotKept(st, value) ==
    IF st.thrown # NoErr THEN st
    ELSE LET r == AccountIdFromString(value.s)
         IN [st EXCEPT
               !.thrown = IF r.ok THEN NoErr ELSE PlainErr("AccountIdError"),
               !.trace = Append(@, Tr("AccountId.fromString", "signerAccountId", -1))]

\* signerAccountId = AccountId.fromString(_params.signerAccountId)
StepAccountId(st, value) ==
    IF st.thrown # NoErr THEN st
    ELSE LET r == AccountIdFromString(value.s)
         IN [st EXCEPT
               !.thrown = IF r.ok THEN NoErr ELSE PlainErr("AccountIdError"),
               !.signerAccountId = IF r.ok THEN r.value ELSE @,
               !.trace = Append(@, Tr("AccountId.fromString", "signerAccountId", -1))]

\* the 1-based position of the first element of seq that does not decode, 0 if none
FirstUndecodable(seq) ==
    IF \E i \in 1..Len(seq) : ~base64StringToTransaction(seq[i].s).ok
    THEN CHOOSE i \in 1..Len(seq) :
            /\ ~base64StringToTransaction(seq[i].s).ok
            /\ \A j \in 1..(i-1) : base64StringToTransaction(seq[j].s).ok
    ELSE 0

\* body = _params.field.map((x) => base64StringToTransaction(x))
StepDecodeTransactions(st, field, value) ==
    IF st.thrown # NoErr THEN st
    ELSE LET bad == FirstUndecodable(value.elems)
             last == IF bad = 0 THEN Len(value.elems) ELSE bad
         IN [st EXCEPT
               !.thrown = IF bad = 0 THEN NoErr ELSE PlainErr("DecodeError"),
               !.body = IF bad = 0
                        THEN Body("transactions",
                                  [i \in 1..Len(value.elems) |->
                                      base64StringToTransaction(value.elems[i].s).value],
                                  "")
                        ELSE @,
               !.trace = @ \o [i \in 1..last |-> Tr("base64StringToTransaction", field, i - 1)]]

\* body = base64StringToMessage(_params.message)
StepDecodeMessage(st, value) ==
    IF st.thrown # NoErr THEN st
    ELSE LET r == base64StringToMessage(value.s)
         IN [st EXCEPT
               !.thrown = IF r.ok THEN NoErr ELSE PlainErr("DecodeError"),
               !.body = IF r.ok THEN Body("bytes", <<>>, r.value) ELSE @,
               !.trace = Append(@, Tr("base64StringToMessage", "message", -1))]

\* body = base64StringToQuery(_params.query)
StepDecodeQuery(st, value) ==
    IF st.thrown # NoErr THEN st
    ELSE LET r == base64StringToQuery(value.s)
         IN [st EXCEPT
               !.thrown = IF r.ok THEN NoErr ELSE PlainErr("DecodeError"),
               !.body = IF r.ok THEN Body("query", <<>>, r.value) ELSE @,
               !.trace = Append(@, Tr("base64StringToQuery", "query", -1))]

\* case HederaJsonRpcMethod.GetNodeAddresses
CaseGetNodeAddresses(params) ==
    IF Truthy(params)
    THEN [TryStart EXCEPT !.thrown = PlainErr("INVALID_PARAMS")]
    ELSE TryStart

\* case HederaJsonRpcMethod.ExecuteTransaction
CaseExecuteTransaction(params) ==
    LET v == Get(params, "signedTransaction")
        s1 == StepValidate(TryStart, "signedTransaction", v, "array")
        s2 == StepValidateEach(s1, "signedTransaction", v)
    IN StepDecodeTransactions(s2, "signedTransaction", v)

\* case HederaJsonRpcMethod.SignMessage
CaseSignMessage(params) ==
    LET a == Get(params, "signerAccountId")
        v == Get(params, "message")
        s1 == StepValidate(TryStart, "signerAccountId", a, "string")
        s2 == StepValidate(s1, "message", v, "string")
        s3 == StepAccountId(s2, a)
    IN StepDecodeMessage(s3, v)

\* case HederaJsonRpcMethod.SignQueryAndSend
CaseSignQueryAndSend(params) ==
    LET a == Get(params, "signerAccountId")
        v == Get(params, "query")
        s1 == StepValidate(TryStart, "signerAccountId", a, "string")
        s2 == StepValidate(s1, "query", v, "string")
        s3 == StepAccountId(s2, a)
    IN StepDecodeQuery(s3, v)

\* case HederaJsonRpcMethod.SignAndExecuteTransaction
CaseSignAndExecuteTransaction(params) ==
    LET a == Get(params, "signerAccountId")
        v == Get(params, "transaction")
        s1 == StepValidate(TryStart, "signerAccountId", a, "string")
        s2 == StepValidate(s1, "transaction", v, "array")
        s3 == StepValidateEach(s2, "transaction", v)
        s4 == StepAccountId(s3, a)
    IN StepDecodeTransactions(s4, "transaction", v)

\* case HederaJsonRpcMethod.SignTransaction
CaseSignTransaction(params) ==
    LET a == Get(params, "signerAccountId")
        v == Get(params, "transaction")
        s1 == StepValidate(TryStart, "signerAccountId", a, "string")
        s2 == StepValidate(s1, "transaction", v, "array")
        s3 == StepValidateEach(s2, "transaction", v)
        s4 == StepAccountId(s3, a)
    IN StepDecodeTransactions(s4, "transaction", v)

\* variant: the switch has no default case
TryBody_NoDefault(method, params) ==
    CASE method = HederaJsonRpcMethod.GetNodeAddresses -> CaseGetNodeAddresses(params)
      [] method = HederaJsonRpcMethod.ExecuteTransaction -> CaseExecuteTransaction(params)
      [] method = HederaJsonRpcMethod.SignMessage -> CaseSignMessage(params)
      [] method = HederaJsonRpcMethod.SignQueryAndSend -> CaseSignQueryAndSend(params)
      [] method = HederaJsonRpcMethod.SignAndExecuteTransaction ->
            CaseSignAndExecuteTransaction(params)
      [] method = HederaJsonRpcMethod.SignTransaction -> CaseSignTransaction(params)
      [] OTHER -> TryStart

\* switch (method) { ... default: throw getSdkError('INVALID_METHOD') }
TryBody(method, params) ==
    CASE method = HederaJsonRpcMethod.GetNodeAddresses -> CaseGetNodeAddresses(params)
      [] method = HederaJsonRpcMethod.ExecuteTransaction -> CaseExecuteTransaction(params)
      [] method = HederaJsonRpcMethod.SignMessage -> CaseSignMessage(params)
      [] method = HederaJsonRpcMethod.SignQueryAndSend -> CaseSignQueryAndSend(params)
      [] method = HederaJsonRpcMethod.SignAndExecuteTransaction ->
            CaseSignAndExecuteTransaction(params)
      [] method = HederaJsonRpcMethod.SignTransaction -> CaseSignTransaction(params)
      [] OTHER -> [TryStart EXCEPT !.thrown = PlainErr("INVALID_METHOD")]

Descriptor(method, chainId, id, topic, body, accountId) ==
    [method |-> method, chainId |-> chainId, id |-> id, topic |-> topic,
     body |-> body, accountId |-> accountId]

\* stands for "no value returned"
NoDescriptor == Descriptor("", "", 0, "", NoBody, NoAccount)

\* variant: the catch block rethrows whatever shouldThrow is
parseSessionRequest_AlwaysThrows(event, shouldThrow) ==
    LET st == TryBody(event.params.request.method, event.params.request.params)
    IN IF st.thrown # NoErr
       THEN [threw |-> TRUE, error |-> st.thrown, desc |-> NoDescriptor,
             trace |-> st.trace]
       ELSE [threw |-> FALSE, error |-> NoErr,
             desc |-> Descriptor(event.params.request.method, event.params.chainId,
                                 event.id, event.topic, st.body, st.signerAccountId),
             trace |-> st.trace]

\* variant: the catch block swallows whatever shouldThrow is
parseSessionRequest_NeverThrows(event, shouldThrow) ==
    LET st == TryBody(event.params.request.method, event.params.request.params)
    IN [threw |-> FALSE, error |-> NoErr,
        desc |-> Descriptor(event.params.request.method, event.params.chainId,
                            event.id, event.topic, st.body, st.signerAccountId),
        trace |-> st.trace]

\* [threw, error, desc, trace]: threw with the error thrown, or the descriptor
\* returned
parseSessionRequest(event, shouldThrow) ==
    LET st == TryBody(event.params.request.method, event.params.request.params)
    IN IF st.thrown # NoErr /\ shouldThrow
       THEN [threw |-> TRUE, error |-> st.thrown, desc |-> NoDescriptor,
             trace |-> st.trace]
       ELSE [threw |-> FALSE, error |-> NoErr,
             desc |-> Descriptor(event.params.request.method, event.params.chainId,
                                 event.id, event.topic, st.body, st.signerAccountId),
             trace |-> st.trace]

(***************************************************************************)
(* The session requests the model draws from.                              *)
(***************************************************************************)
Ids == {1, 2}
Topics == {"topicA", "topicB"}
ChainIds == {"hedera:testnet", "hedera:mainnet"}

SessionRequest(id, topic, chainId, method, params) ==
    [id |-> id, topic |-> topic,
     params |-> [chainId |-> chainId,
                 request |-> [method |-> method, params |-> params]]]

ScalarParams(vals) == { Params(v.t, v.s, NoFields) : v \in vals }

\* sequences over S of length 0..n
SeqsUpTo(S, n) == UNION { [1..k -> S] : k \in 0..n }

AccountValues == {UNDEF, Num("123"), Str("0.0.12345"), Str("not-an-account")}
ElementValues ==
    {Str("b64:txA"), Str("b64:txB"), Str("b64:txNoId"), Str("%%%"), Num("123")}
ArrayValues ==
    {UNDEF, Str("b64:txA"), ObjBytes} \cup { Arr(q) : q \in SeqsUpTo(ElementValues, MaxBatch) }
MessageValues == {UNDEF, Num("123"), Str("b64:hello"), Str("%%%")}
QueryValues == {UNDEF, NULL, Str("b64:qInfo"), Str("%%%")}

ParamsOf(method) ==
    CASE method = HederaJsonRpcMethod.GetNodeAddresses ->
            ScalarParams({UNDEF, NULL, Num("0"), Num("7"), Bool("false"), Bool("true"),
                          Str(""), Str("x")})
            \cup {ObjParams(NoFields)}
      [] method = HederaJsonRpcMethod.ExecuteTransaction ->
            ScalarParams({UNDEF, NULL, Str("x")})
            \cup { ObjParams([NoFields EXCEPT !.signedTransaction = v]) : v \in ArrayValues }
            \cup { ObjParams([NoFields EXCEPT !.signedTransaction = Arr(q)]) :
                     q \in SeqsUpTo({Str("b64:txA"), Str("b64:txNoNode")}, MaxBatch) }
      [] method = HederaJsonRpcMethod.SignMessage ->
            ScalarParams({UNDEF, NULL})
            \cup { ObjParams([NoFields EXCEPT !.signerAccountId = a, !.message = v]) :
                     a \in AccountValues, v \in MessageValues }
            \cup { ObjParams([NoFields EXCEPT !.signerAccountId = Str("0.0.12345"),
                                              !.messages = Arr(<<Str("b64:hello")>>)]) }
      [] method = HederaJsonRpcMethod.SignQueryAndSend ->
            ScalarParams({UNDEF, NULL})
            \cup { ObjParams([NoFields EXCEPT !.signerAccountId = a, !.query = v]) :
                     a \in AccountValues, v \in QueryValues }
      [] method \in {HederaJsonRpcMethod.SignAndExecuteTransaction,
                     HederaJsonRpcMethod.SignTransaction} ->
            ScalarParams({UNDEF, NULL})
            \cup { ObjParams([NoFields EXCEPT !.signerAccountId = a, !.transaction = v]) :
                     a \in AccountValues, v \in ArrayValues }
      [] OTHER ->
            ScalarParams({UNDEF})
            \cup { ObjParams([NoFields EXCEPT !.signerAccountId = Str("0.0.12345"),
                                              !.transaction = Arr(<<Str("b64:txA")>>)]),
                   ObjParams([NoFields EXCEPT !.signedTransaction = Arr(<<Num("123")>>)]) }

UnknownMethods == {"eth_sendTransaction", "hedera_sendTransactionOnly"}

(***************************************************************************)
(* The request builders of the dApp side (src/src/lib/shared/payloads.ts). *)
(***************************************************************************)
\* the encoder that base64StringToTransaction inverts
transactionToBase64String(transaction) ==
    CHOOSE w \in DOMAIN TxWire : TxWire[w] = transaction.name

\* Buffer.from(message).toString('base64')
BufferToBase64(message) == "b64:" \o message

\* the object {bytes: "..."}
BytesObject(bytes) == [ObjBytes EXCEPT !.s = "{bytes: " \o bytes \o "}"]

buildSignMessageParams(signerAccountId, messages) ==
    ObjParams([NoFields EXCEPT
        !.signerAccountId = Str(signerAccountId),
        !.messages = Arr([i \in 1..Len(messages) |-> Str(BufferToBase64(messages[i]))])])

buildTransactionParams(signerAccountId, transaction) ==
    ObjParams([NoFields EXCEPT
        !.signerAccountId = Str(signerAccountId),
        !.transaction = BytesObject(transactionToBase64String(transaction))])

buildSignAndExecuteTransactionParams(signerAccountId, transaction) ==
    buildTransactionParams(signerAccountId, transaction)

buildSignAndReturnTransactionParams(signerAccountId, transaction) ==
    buildTransactionParams(signerAccountId, transaction)

\* new HederaSessionRequest({ chainId, topic, expiry })
HederaSessionRequest(chainId, topic, expiry) ==
    [chainId |-> chainId, topic |-> topic, expiry |-> expiry]

BuiltRequest(this, method, params) ==
    [chainId |-> this.chainId, topic |-> this.topic, expiry |-> this.expiry,
     request |-> [method |-> method, params |-> params]]

buildSignAndExecuteTransactionRequest(this, signerAccountId, transaction) ==
    BuiltRequest(this, HederaJsonRpcMethod.SignAndExecuteTransaction,
                 buildSignAndExecuteTransactionParams(signerAccountId, transaction))

buildSignAndReturnTransactionRequest(this, signerAccountId, transaction) ==
    BuiltRequest(this, HederaJsonRpcMethod.SignTransaction,
                 buildSignAndReturnTransactionParams(signerAccountId, transaction))

buildSignMessageRequest(this, signerAccountId, messages) ==
    BuiltRequest(this, HederaJsonRpcMethod.SignMessage,
                 buildSignMessageParams(signerAccountId, messages))

\* the session request event the wallet receives for a built request: the
\* transport adds the id
Delivered(id, r) == SessionRequest(id, r.topic, r.chainId, r.request.method, r.request.params)

\* what the builders are called with
BuilderAccounts == {"0.0.12345", "not-an-account"}
BuilderMessages == SeqsUpTo({"hello", "bye"}, MaxBatch)
BuilderTransactions == { Transactions[n] : n \in {"txA", "txB", "txNoId"} }

\* every event that comes from a builder of HederaSessionRequest
BuiltRequests ==
    UNION { { Delivered(id, buildSignMessageRequest(this, a, m)) : m \in BuilderMessages }
            \cup { Delivered(id, buildSignAndExecuteTransactionRequest(this, a, tx)) :
                      tx \in BuilderTransactions }
            \cup { Delivered(id, buildSignAndReturnTransactionRequest(this, a, tx)) :
                      tx \in BuilderTransactions } :
            id \in Ids, a \in BuilderAccounts,
            this \in { HederaSessionRequest(c, topic, 300) : c \in ChainIds, topic \in Topics } }

SessionRequests ==
    UNION { { SessionRequest(id, topic, chainId, m, p) :
                id \in Ids, topic \in Topics, chainId \in ChainIds, p \in ParamsOf(m) } :
            m \in WireMethods \cup UnknownMethods }
    \cup BuiltRequests

(***************************************************************************)
(* The signer and the transport.                                           *)
(***************************************************************************)
\* signer.getNetwork(): node address -> node account id, in the object's order
Network == << <<"node0:50211", "0.0.3">>, <<"node1:50211", "0.0.4">> >>

\* status codes of a PrecheckStatusError
PrecheckCodes == {9, 11}

\* Uint8ArrayToBase64String, signatureMapToBase64: bytes are token sequences
Uint8ArrayToBase64String(bytes) == <<"base64">> \o bytes
signatureMapToBase64(sigMap) == <<"base64">> \o sigMap

\* signer.signTransaction(tx) resolved: the transaction with the signer's signature
SignedTransaction(tx) == [tx EXCEPT !.signed = TRUE]

\* transaction.getSignatures()
GetSignatures(tx) == IF tx.signed THEN <<"sigmap", tx.name>> ELSE <<"sigmap">>

\* await transaction.getTransactionHash() resolved
TransactionHash(tx) == <<"hash", tx.name>>

Result(t, list, bytes) == [t |-> t, list |-> list, bytes |-> bytes]
NoResult == Result("undefined", <<>>, <<>>)
NoErrorObj == [code |-> 0, message |-> ""]

\* the envelopes given to respondSessionRequest
ResultEnvelope(topic, id, result) ==
    [topic |-> topic,
     response |-> [keys |-> {"jsonrpc", "id", "result"}, jsonrpc |-> "2.0", id |-> id,
                   result |-> result, error |-> NoErrorObj]]

ErrorEnvelope(topic, id, error) ==
    [topic |-> topic,
     response |-> [keys |-> {"jsonrpc", "id", "error"}, jsonrpc |-> "2.0", id |-> id,
                   result |-> NoResult, error |-> error]]

\* the errors a caller passes to rejectSessionRequest
RejectErrors ==
    { [code |-> 5000, message |-> "User rejected."],
      [code |-> 9000, message |-> "INVALID_PARAMS"] }

(***************************************************************************)
(* State.                                                                  *)
(*   req[s]     the call of executeSessionRequest or rejectSessionRequest  *)
(*              on the request of slot s: its event, its position, the     *)
(*              error its promise rejected with, and the per-transaction   *)
(*              closures of a batch handler                                *)
(*   outbox     the envelopes passed to respondSessionRequest, in order    *)
(*   signerOps  the signer operations invoked so far                       *)
(***************************************************************************)
VARIABLES req, outbox, signerOps

vars == <<req, outbox, signerOps>>

Slots == {"r1", "r2"}

NoRecord == [transactionId |-> "", nodeId |-> "", transactionHash |-> <<>>, precheckCode |-> 0]

\* one element of a batch: st is the position of its closure, tx the transaction
\* it holds, err the error it rejected with, outcome how signer.call ended (with
\* the status code of its PrecheckStatusError), rec the result record it builds
Elem(st, tx, err, rec) ==
    [st |-> st, tx |-> tx, err |-> err, outcome |-> "", status |-> 0, rec |-> rec]

\* parsed is what the call of parseSessionRequest gave, rejectError the error
\* passed to rejectSessionRequest
Proc(event, api, pc) ==
    [event |-> event, api |-> api, pc |-> pc, thrown |-> NoErr,
     parsed |-> [threw |-> FALSE, error |-> NoErr, desc |-> NoDescriptor, trace |-> <<>>],
     rejectError |-> NoErrorObj,
     desc |-> NoDescriptor, handler |-> "", stage |-> "", elems |-> <<>>]

Unused == Proc(SessionRequest(0, "", "", "", Params("undefined", "", NoFields)), "", "unused")

SignerOp(s, op, index, arg, signed) ==
    [slot |-> s, op |-> op, index |-> index, arg |-> arg, signed |-> signed]

\* what a synchronous run of a handler leaves: the process, the envelopes it
\* passed to respondSessionRequest, the signer operations it invoked
Ran(proc, out, ops) == [proc |-> proc, out |-> out, ops |-> ops]

AllSt(p, st) == \A i \in 1..Len(p.elems) : p.elems[i].st = st
AnyFailed(p) == \E i \in 1..Len(p.elems) : p.elems[i].st = "failed"
FirstFailed(p) ==
    CHOOSE i \in 1..Len(p.elems) :
        /\ p.elems[i].st = "failed"
        /\ \A j \in 1..(i-1) : p.elems[j].st # "failed"

\* the closure of resultPromises up to its first await: the non-null assertions on
\* transactionId and nodeAccountIds[0], then getTransactionHash() is awaited
SubmitPrefix(tx) ==
    IF tx.transactionId = "" \/ tx.nodeAccountIds = <<>>
    THEN Elem("failed", tx, PlainErr("TypeError"), NoRecord)
    ELSE Elem("hashing", tx, NoErr,
              [transactionId |-> tx.transactionId, nodeId |-> tx.nodeAccountIds[1],
               transactionHash |-> <<>>, precheckCode |-> 0])

\* variant: the response is sent by each closure as its submission completes
AwaitResults_RespondPerElement(p) ==
    IF p.pc # "running" THEN Ran(p, <<>>, {})
    ELSE IF AnyFailed(p)
    THEN Ran([p EXCEPT !.pc = "failed", !.thrown = p.elems[FirstFailed(p)].err], <<>>, {})
    ELSE IF \E i \in 1..Len(p.elems) : p.elems[i].st = "done"
    THEN Ran([p EXCEPT !.pc = IF AllSt(p, "done") THEN "done" ELSE @],
             << ResultEnvelope(p.desc.topic, p.desc.id,
                    Result("records", [i \in 1..Len(p.elems) |-> p.elems[i].rec], <<>>)) >>,
             {})
    ELSE Ran(p, <<>>, {})

\* variant: the result lists only the records of the submissions that resolved
AwaitResults_ResolvedOnly(p) ==
    IF p.pc # "running" THEN Ran(p, <<>>, {})
    ELSE IF AnyFailed(p)
    THEN Ran([p EXCEPT !.pc = "failed", !.thrown = p.elems[FirstFailed(p)].err], <<>>, {})
    ELSE IF AllSt(p, "done")
    THEN Ran([p EXCEPT !.pc = "done"],
             << ResultEnvelope(p.desc.topic, p.desc.id,
                    Result("records",
                           SelectSeq([i \in 1..Len(p.elems) |-> p.elems[i].rec],
                                     LAMBDA r : r.precheckCode = 0),
                           <<>>)) >>,
             {})
    ELSE Ran(p, <<>>, {})

\* await Promise.all(resultPromises) and what follows it
AwaitResults(p) ==
    IF p.pc # "running" THEN Ran(p, <<>>, {})
    ELSE IF AnyFailed(p)
    THEN Ran([p EXCEPT !.pc = "failed", !.thrown = p.elems[FirstFailed(p)].err], <<>>, {})
    ELSE IF AllSt(p, "done")
    THEN Ran([p EXCEPT !.pc = "done"],
             << ResultEnvelope(p.desc.topic, p.desc.id,
                    Result("records", [i \in 1..Len(p.elems) |-> p.elems[i].rec], <<>>)) >>,
             {})
    ELSE Ran(p, <<>>, {})

\* variant: the closures run over body, the transactions as they were received
StartSubmits_OverBody(p) ==
    AwaitResults([p EXCEPT !.stage = "submit",
                           !.elems = [i \in 1..Len(p.elems) |-> SubmitPrefix(p.desc.body.txs[i])]])

\* signedTransactions.map(async ...) of hedera_signAndExecuteTransaction
StartSubmits(p) ==
    AwaitResults([p EXCEPT !.stage = "submit",
                           !.elems = [i \in 1..Len(p.elems) |-> SubmitPrefix(p.elems[i].tx)]])

\* the rest of hedera_signTransaction once every transaction is signed
RespondSignatures(p) ==
    Ran([p EXCEPT !.pc = "done"],
        << ResultEnvelope(p.desc.topic, p.desc.id,
               Result("signatureMaps",
                      [i \in 1..Len(p.elems) |->
                          signatureMapToBase64(GetSignatures(p.elems[i].tx))],
                      <<>>)) >>,
        {})

\* variant: the signatures are awaited with Promise.allSettled
AwaitSigned_AllSettled(p) ==
    IF p.pc # "running" THEN Ran(p, <<>>, {})
    ELSE IF \A i \in 1..Len(p.elems) : p.elems[i].st \in {"signed", "failed"}
    THEN IF p.handler = "hedera_signTransaction" THEN RespondSignatures(p) ELSE StartSubmits(p)
    ELSE Ran(p, <<>>, {})

\* variant: the signed transactions are submitted whatever the handler
AwaitSigned_AlwaysSubmits(p) ==
    IF p.pc # "running" THEN Ran(p, <<>>, {})
    ELSE IF AnyFailed(p)
    THEN Ran([p EXCEPT !.pc = "failed", !.thrown = p.elems[FirstFailed(p)].err], <<>>, {})
    ELSE IF AllSt(p, "signed")
    THEN StartSubmits(p)
    ELSE Ran(p, <<>>, {})

\* await Promise.all(signedTransactionsPromises) and what follows it
AwaitSigned(p) ==
    IF p.pc # "running" THEN Ran(p, <<>>, {})
    ELSE IF AnyFailed(p)
    THEN Ran([p EXCEPT !.pc = "failed", !.thrown = p.elems[FirstFailed(p)].err], <<>>, {})
    ELSE IF AllSt(p, "signed")
    THEN IF p.handler = "hedera_signTransaction" THEN RespondSignatures(p) ELSE StartSubmits(p)
    ELSE Ran(p, <<>>, {})

(***************************************************************************)
(* The handlers, up to their first await.                                  *)
(***************************************************************************)
hedera_getNodeAddresses(s, p) ==
    Ran([p EXCEPT !.pc = "done"],
        << ResultEnvelope(p.desc.topic, p.desc.id,
               Result("nodes", [i \in 1..Len(Network) |-> Network[i][2]], <<>>)) >>,
        {SignerOp(s, "getNetwork", 0, "", FALSE)})

hedera_executeTransaction(s, p) ==
    AwaitResults([p EXCEPT !.stage = "submit",
                           !.elems = [i \in 1..Len(p.desc.body.txs) |->
                                         SubmitPrefix(p.desc.body.txs[i])]])

hedera_signMessage(s, p) ==
    Ran([p EXCEPT !.stage = "signMessage"], <<>>,
        {SignerOp(s, "sign", 0, p.desc.body.s, FALSE)})

hedera_signQueryAndSend(s, p) ==
    Ran([p EXCEPT !.stage = "query"], <<>>,
        {SignerOp(s, "executeWithSigner", 0, p.desc.body.s, FALSE)})

\* body.map((transaction) => signer.signTransaction(transaction))
SignAll(s, p) ==
    LET q == [p EXCEPT !.stage = "sign",
                       !.elems = [i \in 1..Len(p.desc.body.txs) |->
                                     Elem("signing", p.desc.body.txs[i], NoErr, NoRecord)]]
        r == AwaitSigned(q)
    IN Ran(r.proc, r.out,
           r.ops \cup { SignerOp(s, "signTransaction", i, p.desc.body.txs[i].name, FALSE) :
                          i \in 1..Len(p.desc.body.txs) })

hedera_signAndExecuteTransaction(s, p) == SignAll(s, p)

hedera_signTransaction(s, p) == SignAll(s, p)

\* this[method](id, topic, body, hederaWallet)
Dispatch(s, p) ==
    LET q == [p EXCEPT !.handler = p.desc.method, !.pc = "running"]
    IN CASE p.desc.method = HederaJsonRpcMethod.GetNodeAddresses -> hedera_getNodeAddresses(s, q)
         [] p.desc.method = HederaJsonRpcMethod.ExecuteTransaction -> hedera_executeTransaction(s, q)
         [] p.desc.method = HederaJsonRpcMethod.SignMessage -> hedera_signMessage(s, q)
         [] p.desc.method = HederaJsonRpcMethod.SignQueryAndSend -> hedera_signQueryAndSend(s, q)
         [] p.desc.method = HederaJsonRpcMethod.SignAndExecuteTransaction ->
               hedera_signAndExecuteTransaction(s, q)
         [] p.desc.method = HederaJsonRpcMethod.SignTransaction -> hedera_signTransaction(s, q)
         [] OTHER -> Ran([q EXCEPT !.handler = "", !.pc = "failed", !.thrown = PlainErr("TypeError")],
                         <<>>, {})

\* variant: a parse error is answered with an error envelope
RunExecute_AnswersParseError(s, p) ==
    LET r == parseSessionRequest(p.event, TRUE)
        q == [p EXCEPT !.api = "executeSessionRequest", !.parsed = r]
    IN IF r.threw
       THEN Ran([q EXCEPT !.pc = "failed", !.thrown = r.error],
                << ErrorEnvelope(p.event.topic, p.event.id,
                                 [code |-> 9000, message |-> r.error.kind]) >>, {})
       ELSE Dispatch(s, [q EXCEPT !.desc = r.desc])

\* the synchronous part of executeSessionRequest(event, hederaWallet)
RunExecute(s, p) ==
    LET r == parseSessionRequest(p.event, TRUE)
        q == [p EXCEPT !.api = "executeSessionRequest", !.parsed = r]
    IN IF r.threw
       THEN Ran([q EXCEPT !.pc = "failed", !.thrown = r.error], <<>>, {})
       ELSE Dispatch(s, [q EXCEPT !.desc = r.desc])

\* variant: the envelope takes id and topic from the request received first
RunReject_SharedEvent(s, p, error) ==
    LET r == parseSessionRequest(p.event, FALSE)
        q == [p EXCEPT !.api = "rejectSessionRequest", !.parsed = r, !.rejectError = error]
    IN IF r.threw
       THEN Ran([q EXCEPT !.pc = "failed", !.thrown = r.error], <<>>, {})
       ELSE Ran([q EXCEPT !.pc = "done", !.desc = r.desc],
                << ErrorEnvelope(req["r1"].event.topic, req["r1"].event.id, error) >>, {})

\* variant: the rejection envelope also carries a result member
RunReject_WithResult(s, p, error) ==
    LET r == parseSessionRequest(p.event, FALSE)
        q == [p EXCEPT !.api = "rejectSessionRequest", !.parsed = r, !.rejectError = error]
    IN IF r.threw
       THEN Ran([q EXCEPT !.pc = "failed", !.thrown = r.error], <<>>, {})
       ELSE Ran([q EXCEPT !.pc = "done", !.desc = r.desc],
                << [topic |-> r.desc.topic,
                    response |-> [keys |-> {"jsonrpc", "id", "result", "error"},
                                  jsonrpc |-> "2.0", id |-> r.desc.id,
                                  result |-> NoResult, error |-> error]] >>, {})

\* rejectSessionRequest(event, error)
RunReject(s, p, error) ==
    LET r == parseSessionRequest(p.event, FALSE)
        q == [p EXCEPT !.api = "rejectSessionRequest", !.parsed = r, !.rejectError = error]
    IN IF r.threw
       THEN Ran([q EXCEPT !.pc = "failed", !.thrown = r.error], <<>>, {})
       ELSE Ran([q EXCEPT !.pc = "done", !.desc = r.desc],
                << ErrorEnvelope(r.desc.topic, r.desc.id, error) >>, {})

Commit(s, r) ==
    /\ req' = [req EXCEPT ![s] = r.proc]
    /\ outbox' = outbox \o r.out
    /\ signerOps' = signerOps \cup r.ops

(***************************************************************************)
(* Actions.                                                                *)
(***************************************************************************)
ExecuteSessionRequest(s) ==
    /\ req[s].pc = "idle"
    /\ Commit(s, RunExecute(s, req[s]))

RejectSessionRequest(s) ==
    /\ req[s].pc = "idle"
    /\ \E error \in RejectErrors : Commit(s, RunReject(s, req[s], error))

\* a promise of signer.signTransaction settles
SignTransactionSettled(s, i) ==
    /\ i \in 1..Len(req[s].elems)
    /\ req[s].elems[i].st = "signing"
    /\ \E ok \in BOOLEAN :
         LET e == req[s].elems[i]
             e2 == IF ok THEN [e EXCEPT !.st = "signed", !.tx = SignedTransaction(e.tx)]
                   ELSE [e EXCEPT !.st = "failed", !.err = PlainErr("SignerError")]
         IN Commit(s, AwaitSigned([req[s] EXCEPT !.elems[i] = e2]))

\* variant: the closures stop once the handler has failed
GetTransactionHashSettled_UnlessFailed(s, i) ==
    /\ i \in 1..Len(req[s].elems)
    /\ req[s].elems[i].st = "hashing"
    /\ req[s].pc = "running"
    /\ \E ok \in BOOLEAN :
         LET e == req[s].elems[i]
             e2 == IF ok
                   THEN [e EXCEPT !.st = "calling",
                                  !.rec.transactionHash =
                                      Uint8ArrayToBase64String(TransactionHash(e.tx))]
                   ELSE [e EXCEPT !.st = "failed", !.err = PlainErr("HashError")]
             r == AwaitResults([req[s] EXCEPT !.elems[i] = e2])
         IN Commit(s, Ran(r.proc, r.out,
                          IF ok THEN {SignerOp(s, "call", i, e.tx.name, e.tx.signed)} ELSE {}))

\* a promise of getTransactionHash settles; on success signer.call is invoked
GetTransactionHashSettled(s, i) ==
    /\ i \in 1..Len(req[s].elems)
    /\ req[s].elems[i].st = "hashing"
    /\ \E ok \in BOOLEAN :
         LET e == req[s].elems[i]
             e2 == IF ok
                   THEN [e EXCEPT !.st = "calling",
                                  !.rec.transactionHash =
                                      Uint8ArrayToBase64String(TransactionHash(e.tx))]
                   ELSE [e EXCEPT !.st = "failed", !.err = PlainErr("HashError")]
             r == AwaitResults([req[s] EXCEPT !.elems[i] = e2])
         IN Commit(s, Ran(r.proc, r.out,
                          IF ok THEN {SignerOp(s, "call", i, e.tx.name, e.tx.signed)} ELSE {}))

\* variant: signer.call is awaited outside any try block
CallResult_NoCatch(e, code) ==
    IF code = 0
    THEN [e EXCEPT !.st = "done", !.outcome = "ok"]
    ELSE [e EXCEPT !.st = "failed",
                   !.outcome = IF code \in PrecheckCodes THEN "precheck" ELSE "error",
                   !.status = IF code \in PrecheckCodes THEN code ELSE 0,
                   !.err = PlainErr(IF code \in PrecheckCodes THEN "PrecheckStatusError"
                                    ELSE "NetworkError")]

\* variant: the catch block rethrows what is not a PrecheckStatusError
CallResult_RethrowsOther(e, code) ==
    IF code = 0 \/ code \in PrecheckCodes
    THEN [e EXCEPT !.st = "done",
                   !.outcome = IF code = 0 THEN "ok" ELSE "precheck",
                   !.status = code,
                   !.rec.precheckCode = code]
    ELSE [e EXCEPT !.st = "failed", !.outcome = "error", !.err = PlainErr("NetworkError")]

\* the record a closure returns once signer.call has settled: code is 0 when the
\* call resolved, the status code of a PrecheckStatusError, -1 for any other error
CallResult(e, code) ==
    [e EXCEPT !.st = "done",
              !.outcome = IF code = 0 THEN "ok"
                          ELSE IF code \in PrecheckCodes THEN "precheck" ELSE "error",
              !.status = IF code \in PrecheckCodes THEN code ELSE 0,
              !.rec.precheckCode = IF code \in PrecheckCodes THEN code ELSE 0]

\* a promise of signer.call settles
CallSettled(s, i) ==
    /\ i \in 1..Len(req[s].elems)
    /\ req[s].elems[i].st = "calling"
    /\ \E code \in {0, -1} \cup PrecheckCodes :
         Commit(s, AwaitResults([req[s] EXCEPT !.elems[i] = CallResult(req[s].elems[i], code)]))

\* the rest of hedera_signMessage once signer.sign has resolved with n signatures
RespondSignature(p, n) ==
    LET signerSignatures == [k \in 1..n |-> <<"signature", p.desc.body.s, "signer", ToString(k)>>]
    IN Ran([p EXCEPT !.pc = "done"],
           << ResultEnvelope(p.desc.topic, p.desc.id,
                  Result("signatureMap", <<>>, Uint8ArrayToBase64String(signerSignatures[1]))) >>,
           {})

\* the promise of signer.sign settles
SignSettled(s) ==
    /\ req[s].pc = "running"
    /\ req[s].stage = "signMessage"
    /\ \/ Commit(s, Ran([req[s] EXCEPT !.pc = "failed", !.thrown = PlainErr("SignerError")],
                        <<>>, {}))
       \/ \E n \in 1..2 : Commit(s, RespondSignature(req[s], n))

\* the rest of hedera_signQueryAndSend once the query has been executed
RespondQuery(p) ==
    Ran([p EXCEPT !.pc = "done"],
        << ResultEnvelope(p.desc.topic, p.desc.id,
               Result("response", <<>>,
                      Uint8ArrayToBase64String(<<"response", p.desc.body.s>>))) >>,
        {})

\* the promise of body.executeWithSigner(signer) settles
ExecuteWithSignerSettled(s) ==
    /\ req[s].pc = "running"
    /\ req[s].stage = "query"
    /\ \/ Commit(s, Ran([req[s] EXCEPT !.pc = "failed", !.thrown = PlainErr("NetworkError")],
                        <<>>, {}))
       \/ Commit(s, RespondQuery(req[s]))

\* one session request has arrived, in slot r1; the other slot holds no call
Init ==
    /\ \E event \in SessionRequests :
         req = [s \in Slots |-> IF s = "r1" THEN Proc(event, "", "idle") ELSE Unused]
    /\ outbox = <<>>
    /\ signerOps = {}

Next ==
    \E s \in Slots :
        \/ ExecuteSessionRequest(s)
        \/ RejectSessionRequest(s)
        \/ SignSettled(s)
        \/ ExecuteWithSignerSettled(s)
        \/ \E i \in 1..MaxBatch :
              \/ SignTransactionSettled(s, i)
              \/ GetTransactionHashSettled(s, i)
              \/ CallSettled(s, i)

Spec == Init /\ [][Next]_vars

\* the requests two concurrent calls are given: one of each method, a batch with
\* a transaction that has no transactionId, and a request the parser refuses
ConcurrentPayloads ==
    { <<HederaJsonRpcMethod.GetNodeAddresses, p>> : p \in ScalarParams({UNDEF}) }
    \cup { <<HederaJsonRpcMethod.ExecuteTransaction,
             ObjParams([NoFields EXCEPT !.signedTransaction = Arr(q)])>> :
               q \in { <<Str("b64:txA")>>, <<Str("b64:txNoId"), Str("b64:txB")>> } }
    \cup { <<HederaJsonRpcMethod.SignMessage,
             ObjParams([NoFields EXCEPT !.signerAccountId = Str("0.0.12345"), !.message = v])>> :
               v \in {Str("b64:hello"), UNDEF} }
    \cup { <<HederaJsonRpcMethod.SignQueryAndSend,
             ObjParams([NoFields EXCEPT !.signerAccountId = Str("0.0.12345"),
                                        !.query = Str("b64:qInfo")])>> }
    \cup { <<m, ObjParams([NoFields EXCEPT !.signerAccountId = Str("0.0.12345"),
                                           !.transaction = Arr(<<Str("b64:txB")>>)])>> :
               m \in {HederaJsonRpcMethod.SignAndExecuteTransaction,
                      HederaJsonRpcMethod.SignTransaction} }

\* two session requests with different (id, topic) pairs have arrived, and a call
\* of executeSessionRequest or rejectSessionRequest will be made on each
InitConcurrent ==
    /\ \E a \in ConcurrentPayloads, b \in ConcurrentPayloads :
       \E other \in { <<2, "topicA">>, <<1, "topicB">> } :
         req = [s \in Slots |->
                  IF s = "r1"
                  THEN Proc(SessionRequest(1, "topicA", "hedera:testnet", a[1], a[2]), "", "idle")
                  ELSE Proc(SessionRequest(other[1], other[2], "hedera:testnet", b[1], b[2]),
                            "", "idle")]
    /\ outbox = <<>>
    /\ signerOps = {}

SpecConcurrent == InitConcurrent /\ [][Next]_vars

(***************************************************************************)
(* Vocabulary of the properties.                                           *)
(***************************************************************************)
Method(s) == req[s].event.params.request.method
RequestParams(s) == req[s].event.params.request.params

Executed(s) == req[s].api = "executeSessionRequest"
Rejected(s) == req[s].api = "rejectSessionRequest"
Settled(s) == req[s].pc \in {"done", "failed"}

\* the positions in outbox of the envelopes that carry the id and topic of s
ResponsesTo(s) ==
    { k \in 1..Len(outbox) :
        /\ outbox[k].topic = req[s].event.topic
        /\ outbox[k].response.id = req[s].event.id }

IsErrorEnvelope(e) ==
    /\ e.response.jsonrpc = "2.0"
    /\ e.response.keys = {"jsonrpc", "id", "error"}

\* the try block of parseSessionRequest throws on the request of s
Invalid(s) == TryBody(Method(s), RequestParams(s)).thrown # NoErr

\* the declared fields of a method and their shapes, in the order of validation
Schema(method) ==
    CASE method = HederaJsonRpcMethod.ExecuteTransaction -> << <<"signedTransaction", "array">> >>
      [] method = HederaJsonRpcMethod.SignMessage ->
            << <<"signerAccountId", "string">>, <<"message", "string">> >>
      [] method = HederaJsonRpcMethod.SignQueryAndSend ->
            << <<"signerAccountId", "string">>, <<"query", "string">> >>
      [] method \in {HederaJsonRpcMethod.SignAndExecuteTransaction,
                     HederaJsonRpcMethod.SignTransaction} ->
            << <<"signerAccountId", "string">>, <<"transaction", "array">> >>
      [] OTHER -> <<>>

\* v has the declared shape: a string, or an array of strings
WellShaped(v, shape) ==
    IF shape = "string" THEN v.t = "string"
    ELSE v.t = "array" /\ \A i \in 1..Len(v.elems) : v.elems[i].t = "string"

\* the positions in the schema of the fields of s that are missing or misshapen
Offending(s) ==
    { k \in 1..Len(Schema(Method(s))) :
        ~WellShaped(Get(RequestParams(s), Schema(Method(s))[k][1]), Schema(Method(s))[k][2]) }

Min(S) == CHOOSE x \in S : \A y \in S : x <= y

DecodeOps ==
    {"base64StringToTransaction", "base64StringToMessage", "base64StringToQuery",
     "AccountId.fromString"}

(***************************************************************************)
(* C1: a request passed to executeSessionRequest is answered at most once, *)
(* whatever the outcomes of the signer's operations: at most one envelope  *)
(* with its id and topic is ever passed to respondSessionRequest.          *)
(***************************************************************************)
C1_AtMostOneResponse ==
    \A s \in Slots : Executed(s) => Cardinality(ResponsesTo(s)) <= 1

\* a batch of two is answered once after a precheck rejection and another failure
C1_Witness ==
    \E s \in Slots :
        /\ Executed(s) /\ req[s].pc = "done" /\ Len(req[s].elems) = 2
        /\ req[s].elems[1].outcome = "precheck" /\ req[s].elems[2].outcome = "error"
        /\ Cardinality(ResponsesTo(s)) = 1

(***************************************************************************)
(* C2: a handler started for a valid request whose signer operation fails  *)
(* (signing, submission or query execution raises an error) has sent an    *)
(* error envelope by the time it ends.                                     *)
(***************************************************************************)
C2_ErrorEnvelopeOnSignerFailure ==
    \A s \in Slots :
        ( /\ Executed(s) /\ req[s].handler # "" /\ req[s].pc = "failed"
          /\ req[s].thrown.kind \in {"SignerError", "NetworkError"} )
        => \E k \in ResponsesTo(s) : IsErrorEnvelope(outbox[k])

(***************************************************************************)
(* C3: rejectSessionRequest(event, error) passes exactly one envelope to   *)
(* respondSessionRequest, of error shape, with the topic and id of the     *)
(* event and the error of the caller, and does not fail, whatever the      *)
(* request's method, params and payloads are.                              *)
(***************************************************************************)
C3_RejectAlwaysAnswers ==
    \A s \in Slots :
        Rejected(s) =>
            /\ req[s].pc = "done" /\ req[s].thrown = NoErr
            /\ Cardinality(ResponsesTo(s)) = 1
            /\ \A k \in ResponsesTo(s) :
                  outbox[k] = [topic |-> req[s].event.topic,
                               response |-> [keys |-> {"jsonrpc", "id", "error"},
                                             jsonrpc |-> "2.0", id |-> req[s].event.id,
                                             result |-> NoResult,
                                             error |-> req[s].rejectError]]

\* a request with an unknown method has been rejected and answered
C3_Witness ==
    \E s \in Slots :
        /\ Rejected(s) /\ Method(s) \notin WireMethods
        /\ req[s].rejectError \in RejectErrors
        /\ \E k \in ResponsesTo(s) : outbox[k].response.error = req[s].rejectError

C5_InvalidFailsFast ==
    \A s \in Slots :
        (Executed(s) /\ Invalid(s)) =>
            /\ req[s].parsed.threw
            /\ req[s].parsed.error = TryBody(Method(s), RequestParams(s)).thrown
            /\ req[s].parsed.desc = NoDescriptor
            /\ req[s].pc = "failed" /\ req[s].thrown = req[s].parsed.error
            /\ req[s].handler = ""
            /\ \A op \in signerOps : op.slot # s

\* a request whose payload does not decode has failed in executeSessionRequest
C5_Witness ==
    \E s \in Slots :
        /\ Executed(s) /\ Invalid(s)
        /\ req[s].thrown.kind = "DecodeError"
        /\ req[s].handler = "" /\ signerOps = {}

(***************************************************************************)
(* C6: parseSessionRequest(event, false) on a request that fails           *)
(* validation or decoding at any step does not throw and returns a         *)
(* descriptor with id, topic, method and chainId only: body and accountId  *)
(* are absent.                                                             *)
(***************************************************************************)
C6_SwallowedLeavesNoBodyNoAccount ==
    \A s \in Slots :
        (Rejected(s) /\ Invalid(s)) =>
            /\ ~req[s].parsed.threw
            /\ req[s].parsed.desc.id = req[s].event.id
            /\ req[s].parsed.desc.topic = req[s].event.topic
            /\ req[s].parsed.desc.method = Method(s)
            /\ req[s].parsed.desc.chainId = req[s].event.params.chainId
            /\ req[s].parsed.desc.body = NoBody
            /\ req[s].parsed.desc.accountId = NoAccount

(***************************************************************************)
(* C7: parseSessionRequest(event, true) on a request whose method is none  *)
(* of the six wire names throws the invalid-method error, having validated *)
(* no parameter and decoded nothing, whatever the params are.              *)
(***************************************************************************)
C7_UnknownMethodRejectedFirst ==
    \A s \in Slots :
        (Executed(s) /\ Method(s) \notin WireMethods) =>
            /\ req[s].parsed.threw
            /\ req[s].parsed.error = PlainErr("INVALID_METHOD")
            /\ req[s].parsed.trace = <<>>

\* an unknown method with params that would pass hedera_signTransaction
C7_Witness ==
    \E s \in Slots :
        /\ Executed(s) /\ Method(s) \notin WireMethods
        /\ Get(RequestParams(s), "transaction").t = "array"
        /\ req[s].thrown.kind = "INVALID_METHOD"

(***************************************************************************)
(* C8: parseSessionRequest(event, true) on hedera_getNodeAddresses throws  *)
(* the invalid-params error when params is anything but null or undefined  *)
(* (0, false and "" included), and returns a descriptor without body when  *)
(* params is null or undefined.                                            *)
(***************************************************************************)
C8_GetNodeAddressesParams ==
    \A s \in Slots :
        (Executed(s) /\ Method(s) = HederaJsonRpcMethod.GetNodeAddresses) =>
            IF RequestParams(s).t \in {"null", "undefined"}
            THEN ~req[s].parsed.threw /\ req[s].parsed.desc.body = NoBody
            ELSE req[s].parsed.threw /\ req[s].parsed.error.kind = "INVALID_PARAMS"

(***************************************************************************)
(* C9: for a method with parameters, parseSessionRequest(event, true)      *)
(* throws the invalid-params error when a declared field is missing or     *)
(* misshapen; the error names the first such field, with the zero-based    *)
(* index of its first element that is no string when the field is an array *)
(* with such an element; and nothing is decoded before every declared      *)
(* field, and every element of a declared array, has been validated.       *)
(***************************************************************************)
C9_InvalidParamsNamed ==
    \A s \in Slots :
        (Executed(s) /\ Schema(Method(s)) # <<>>) =>
            LET schema == Schema(Method(s))
                trace == req[s].parsed.trace
                error == req[s].parsed.error
            IN /\ Offending(s) # {} =>
                    LET f == schema[Min(Offending(s))]
                        v == Get(RequestParams(s), f[1])
                    IN /\ req[s].parsed.threw
                       /\ error.kind = "INVALID_PARAMS"
                       /\ error.field = f[1]
                       /\ error.index = IF v.t = "array"
                                        THEN Min({i \in 1..Len(v.elems) : v.elems[i].t # "string"}) - 1
                                        ELSE -1
                       /\ \A k \in 1..Len(trace) : trace[k].op \notin DecodeOps
               /\ \A k \in 1..Len(trace) :
                    trace[k].op \in DecodeOps =>
                        \A j \in 1..Len(schema) :
                            /\ \E h \in 1..(k-1) :
                                  trace[h] = Tr("validateParam", schema[j][1], -1)
                            /\ schema[j][2] = "array" =>
                                  \A i \in 1..Len(Get(RequestParams(s), schema[j][1]).elems) :
                                      \E h \in 1..(k-1) :
                                          trace[h] = Tr("validateParam", schema[j][1], i - 1)

\* transaction: ["b64:txA", 123] is refused naming transaction[1]
C9_Witness ==
    \E s \in Slots :
        /\ Executed(s) /\ Method(s) = HederaJsonRpcMethod.SignTransaction
        /\ Get(RequestParams(s), "transaction") = Arr(<<Str("b64:txA"), Num("123")>>)
        /\ req[s].thrown = Err("INVALID_PARAMS", "transaction", 1, "string", "number")

(***************************************************************************)
(* C10: a correctly shaped request (every declared field well shaped, the  *)
(* account and the payloads decodable; no params for                       *)
(* hedera_getNodeAddresses) parses to a descriptor with the request's      *)
(* method, chainId, id and topic, with the body of the table (absent; the  *)
(* decoded transactions in input order; the decoded bytes; the decoded     *)
(* query) and with accountId parsed from signerAccountId for the four      *)
(* methods that declare it, absent for the other two.                      *)
(***************************************************************************)
Decodable(s) ==
    LET p == RequestParams(s)
    IN CASE Method(s) = HederaJsonRpcMethod.GetNodeAddresses -> p.t \in {"null", "undefined"}
         [] Method(s) = HederaJsonRpcMethod.ExecuteTransaction ->
               \A i \in 1..Len(Get(p, "signedTransaction").elems) :
                   base64StringToTransaction(Get(p, "signedTransaction").elems[i].s).ok
         [] Method(s) = HederaJsonRpcMethod.SignMessage ->
               /\ AccountIdFromString(Get(p, "signerAccountId").s).ok
               /\ base64StringToMessage(Get(p, "message").s).ok
         [] Method(s) = HederaJsonRpcMethod.SignQueryAndSend ->
               /\ AccountIdFromString(Get(p, "signerAccountId").s).ok
               /\ base64StringToQuery(Get(p, "query").s).ok
         [] Method(s) \in {HederaJsonRpcMethod.SignAndExecuteTransaction,
                           HederaJsonRpcMethod.SignTransaction} ->
               /\ AccountIdFromString(Get(p, "signerAccountId").s).ok
               /\ \A i \in 1..Len(Get(p, "transaction").elems) :
                     base64StringToTransaction(Get(p, "transaction").elems[i].s).ok
         [] OTHER -> FALSE

CorrectlyShaped(s) ==
    /\ Method(s) \in WireMethods
    /\ Offending(s) = {}
    /\ Decodable(s)

DecodedTransactions(v) ==
    Body("transactions",
         [i \in 1..Len(v.elems) |-> base64StringToTransaction(v.elems[i].s).value], "")

ExpectedBody(s) ==
    LET p == RequestParams(s)
    IN CASE Method(s) = HederaJsonRpcMethod.GetNodeAddresses -> NoBody
         [] Method(s) = HederaJsonRpcMethod.ExecuteTransaction ->
               DecodedTransactions(Get(p, "signedTransaction"))
         [] Method(s) = HederaJsonRpcMethod.SignMessage ->
               Body("bytes", <<>>, base64StringToMessage(Get(p, "message").s).value)
         [] Method(s) = HederaJsonRpcMethod.SignQueryAndSend ->
               Body("query", <<>>, base64StringToQuery(Get(p, "query").s).value)
         [] OTHER -> DecodedTransactions(Get(p, "transaction"))

ExpectedAccountId(s) ==
    IF Method(s) \in {HederaJsonRpcMethod.GetNodeAddresses,
                      HederaJsonRpcMethod.ExecuteTransaction}
    THEN NoAccount
    ELSE AccountIdFromString(Get(RequestParams(s), "signerAccountId").s).value

C10_ValidRequestParses ==
    \A s \in Slots :
        (Executed(s) /\ CorrectlyShaped(s)) =>
            /\ ~req[s].parsed.threw
            /\ req[s].parsed.desc =
                  Descriptor(Method(s), req[s].event.params.chainId, req[s].event.id,
                             req[s].event.topic, ExpectedBody(s), ExpectedAccountId(s))

\* transaction: ["b64:txB", "b64:txA"] parses to the body <<txB, txA>>
C10_Witness ==
    \E s \in Slots :
        /\ Executed(s) /\ CorrectlyShaped(s)
        /\ Method(s) = HederaJsonRpcMethod.SignAndExecuteTransaction
        /\ req[s].parsed.desc.body.txs = <<Transactions.txB, Transactions.txA>>
        /\ req[s].parsed.desc.accountId.num = 12345

(***************************************************************************)
(* The batch handlers.                                                     *)
(***************************************************************************)
SubmitHandlers ==
    {HederaJsonRpcMethod.ExecuteTransaction, HederaJsonRpcMethod.SignAndExecuteTransaction}

\* the handler of s ran and sent its response
Answered(s) == Executed(s) /\ req[s].pc = "done"

\* the result of the response to s
ResultOf(s) == outbox[Min(ResponsesTo(s))].response.result

\* the transactions of the request of s, as the parser decoded them
Batch(s) == req[s].desc.body.txs

\* C11: the result of ExecuteTransaction and of SignAndExecuteTransaction on a
\* batch of N transactions (N >= 0) is an array of exactly N records, the i-th
\* record carrying the transaction id, the first node account id and the hash of
\* the i-th input transaction, and every record of a submission that resolved
\* has precheckCode 0.
C11_RecordsFollowInputOrder ==
    \A s \in Slots :
        (Answered(s) /\ req[s].handler \in SubmitHandlers) =>
            /\ ResponsesTo(s) # {}
            /\ ResultOf(s).t = "records"
            /\ Len(ResultOf(s).list) = Len(Batch(s))
            /\ \A i \in 1..Len(Batch(s)) :
                  LET rec == ResultOf(s).list[i]
                  IN /\ Len(ResultOf(s).list) >= i
                     /\ rec.transactionId = Batch(s)[i].transactionId
                     /\ rec.nodeId = Batch(s)[i].nodeAccountIds[1]
                     /\ rec.transactionHash =
                            Uint8ArrayToBase64String(TransactionHash(Batch(s)[i]))
                     /\ req[s].elems[i].outcome = "ok" => rec.precheckCode = 0

\* a batch of two different transactions was answered, one of them rejected
C11_Witness ==
    \E s \in Slots :
        /\ Answered(s) /\ req[s].handler \in SubmitHandlers
        /\ Len(Batch(s)) = 2
        /\ Batch(s)[1].name # Batch(s)[2].name
        /\ req[s].elems[1].outcome = "precheck"
        /\ req[s].elems[2].outcome = "ok"

\* the errors a closure of a batch can reject with
ClosureErrors == {"TypeError", "HashError", "SignerError"}

\* every closure of the submit stage of s has returned its record
AllSubmitted(s) == req[s].stage = "submit" /\ AllSt(req[s], "done")

IsResultEnvelope(e) ==
    /\ e.response.jsonrpc = "2.0"
    /\ e.response.keys = {"jsonrpc", "id", "result"}

\* C12: when a submission is rejected at precheck, the handler does not fail
\* because of it: the closure returns its record, and once every closure has
\* returned the handler sends a success envelope in which the record of each
\* rejected transaction carries the non-zero status code and every other record
\* carries 0.
C12_PrecheckBecomesData ==
    \A s \in Slots :
        (Executed(s) /\ req[s].handler \in SubmitHandlers) =>
            /\ \A i \in 1..Len(req[s].elems) :
                  req[s].elems[i].outcome = "precheck" =>
                      /\ req[s].elems[i].st = "done"
                      /\ req[s].elems[i].err = NoErr
                      /\ req[s].elems[i].status \in PrecheckCodes
                      /\ req[s].elems[i].status # 0
            /\ req[s].pc = "failed" => req[s].thrown.kind \in ClosureErrors
            /\ AllSubmitted(s) =>
                  /\ req[s].pc = "done"
                  /\ ResponsesTo(s) # {}
                  /\ IsResultEnvelope(outbox[Min(ResponsesTo(s))])
                  /\ Len(ResultOf(s).list) = Len(req[s].elems)
                  /\ \A i \in 1..Len(req[s].elems) :
                        ResultOf(s).list[i].precheckCode =
                            IF req[s].elems[i].outcome = "precheck"
                            THEN req[s].elems[i].status ELSE 0

\* one transaction of a batch of two was rejected at precheck, the other accepted,
\* and the response was sent
C12_Witness ==
    \E s \in Slots :
        /\ Answered(s) /\ req[s].handler \in SubmitHandlers
        /\ Len(req[s].elems) = 2
        /\ req[s].elems[2].outcome = "precheck"
        /\ req[s].elems[1].outcome = "ok"
        /\ ResultOf(s).list[2].precheckCode = 11

CallsOf(s) == { o \in signerOps : o.slot = s /\ o.op = "call" }

\* C14: SignTransaction on N transactions answers with exactly N base64
\* signature maps, the i-th taken from the signed form of the i-th input
\* transaction, and it never invokes signer.call.
C14_SignTransactionSignsOnly ==
    \A s \in Slots :
        (Executed(s) /\ req[s].handler = HederaJsonRpcMethod.SignTransaction) =>
            /\ CallsOf(s) = {}
            /\ \A o \in signerOps : o.slot = s => o.op = "signTransaction"
            /\ req[s].pc = "done" =>
                  /\ ResponsesTo(s) # {}
                  /\ ResultOf(s).t = "signatureMaps"
                  /\ ResultOf(s).list =
                        [i \in 1..Len(Batch(s)) |->
                            signatureMapToBase64(GetSignatures(SignedTransaction(Batch(s)[i])))]

\* SignTransaction answered a batch of two different transactions
C14_Witness ==
    \E s \in Slots :
        /\ Answered(s) /\ req[s].handler = HederaJsonRpcMethod.SignTransaction
        /\ Len(Batch(s)) = 2
        /\ Batch(s)[1].name # Batch(s)[2].name
        /\ Len(ResultOf(s).list) = 2

\* envelope e answers the request of s
AnswersRequest(e, s) ==
    /\ req[s].pc = "done"
    /\ e.topic = req[s].event.topic
    /\ e.response.id = req[s].event.id

\* C15: every envelope passed to respondSessionRequest has jsonrpc "2.0",
\* carries the id and the topic of the request it answers, and has exactly one of
\* result and error: result only when a handler sent it, error only (the error
\* given by the caller) when rejectSessionRequest sent it.
C15_EnvelopeShape ==
    \A k \in 1..Len(outbox) :
        /\ outbox[k].response.jsonrpc = "2.0"
        /\ ("result" \in outbox[k].response.keys) # ("error" \in outbox[k].response.keys)
        /\ \E s \in Slots :
              /\ AnswersRequest(outbox[k], s)
              /\ Executed(s) =>
                    /\ outbox[k].response.keys = {"jsonrpc", "id", "result"}
                    /\ outbox[k].response.result # NoResult
                    /\ outbox[k].response.error = NoErrorObj
              /\ Rejected(s) =>
                    /\ outbox[k].response.keys = {"jsonrpc", "id", "error"}
                    /\ outbox[k].response.result = NoResult
                    /\ outbox[k].response.error = req[s].rejectError

\* a rejection envelope with the caller's error was sent for request 2 on topicB
C15_Witness ==
    \E s \in Slots :
        /\ Rejected(s) /\ req[s].pc = "done"
        /\ req[s].event.id = 2 /\ req[s].event.topic = "topicB"
        /\ Len(outbox) = 1
        /\ outbox[1].response.error.code = 5000
        /\ outbox[1].response.id = 2 /\ outbox[1].topic = "topicB"

\* the envelope a completed call answers with, read from its own process alone
OwnEnvelope(s, p) ==
    IF p.api = "rejectSessionRequest"
    THEN ErrorEnvelope(p.event.topic, p.event.id, p.rejectError)
    ELSE ResultEnvelope(p.event.topic, p.event.id,
           CASE p.handler = HederaJsonRpcMethod.GetNodeAddresses ->
                   Result("nodes", [i \in 1..Len(Network) |-> Network[i][2]], <<>>)
             [] p.handler \in SubmitHandlers ->
                   Result("records", [i \in 1..Len(p.elems) |-> p.elems[i].rec], <<>>)
             [] p.handler = HederaJsonRpcMethod.SignTransaction ->
                   Result("signatureMaps",
                          [i \in 1..Len(p.elems) |->
                              signatureMapToBase64(GetSignatures(p.elems[i].tx))], <<>>)
             [] p.handler = HederaJsonRpcMethod.SignMessage ->
                   Result("signatureMap", <<>>,
                          Uint8ArrayToBase64String(
                              <<"signature", p.parsed.desc.body.s, "signer", "1">>))
             [] OTHER ->
                   Result("response", <<>>,
                          Uint8ArrayToBase64String(<<"response", p.parsed.desc.body.s>>)))

\* each request is answered from its own process: one envelope when its call
\* completed, none otherwise, and no envelope answers nothing
C16_OwnAnswer ==
    /\ \A s \in Slots :
          /\ req[s].pc = "done" =>
                /\ Cardinality(ResponsesTo(s)) = 1
                /\ outbox[Min(ResponsesTo(s))] = OwnEnvelope(s, req[s])
          /\ req[s].pc # "done" => ResponsesTo(s) = {}
    /\ Len(outbox) = Cardinality({ s \in Slots : req[s].pc = "done" })

\* a step moves one call and leaves the other one as it was; what it sends
\* carries the id and topic of the call that moved
C16_OwnStep ==
    \E s \in Slots :
        /\ \A o \in Slots \ {s} : req'[o] = req[o]
        /\ \A k \in (Len(outbox) + 1)..Len(outbox') :
              /\ outbox'[k].topic = req[s].event.topic
              /\ outbox'[k].response.id = req[s].event.id
        /\ \A op \in signerOps' \ signerOps : op.slot = s
        /\ SubSeq(outbox', 1, Len(outbox)) = outbox

\* C16: when two requests with different (id, topic) pairs are processed
\* concurrently by executeSessionRequest and rejectSessionRequest, each response
\* carries the id, the topic and the result of its own request only, and no
\* step of one call changes the other call or what it answers.
C16_RequestsIndependent == [][C16_OwnStep]_vars /\ []C16_OwnAnswer

\* one call failed without a response while the other, on the same topic, was
\* answered
C16_Witness ==
    /\ req["r1"].pc = "failed" /\ Executed("r1")
    /\ req["r1"].handler = HederaJsonRpcMethod.ExecuteTransaction
    /\ req["r2"].pc = "done" /\ Executed("r2")
    /\ req["r2"].handler = HederaJsonRpcMethod.SignAndExecuteTransaction
    /\ req["r2"].event.topic = req["r1"].event.topic
    /\ Len(outbox) = 1
    /\ outbox[1].response.id = 2

\* C17: in SignAndExecuteTransaction, under every order of settlement,
\* signer.call is invoked only on the output of a signer.signTransaction that
\* was invoked on the same element of the batch and has completed.
C17_CallOnlyOnSigned ==
    \A s \in Slots :
        (Executed(s) /\ req[s].handler = HederaJsonRpcMethod.SignAndExecuteTransaction) =>
            \A o \in CallsOf(s) :
                /\ o.index \in 1..Len(Batch(s))
                /\ o.signed
                /\ o.arg = Batch(s)[o.index].name
                /\ SignerOp(s, "signTransaction", o.index, o.arg, FALSE) \in signerOps
                /\ req[s].stage = "submit"
                /\ req[s].elems[o.index].tx = SignedTransaction(Batch(s)[o.index])

\* the second transaction of a batch was submitted before the first
C17_Witness ==
    \E s \in Slots :
        /\ Executed(s) /\ req[s].handler = HederaJsonRpcMethod.SignAndExecuteTransaction
        /\ Len(Batch(s)) = 2
        /\ req[s].elems[1].st = "hashing"
        /\ \E o \in CallsOf(s) : o.index = 2 /\ o.signed

\* a signer.signTransaction of the batch of s has rejected
SigningFailed(s) ==
    \E i \in 1..Len(req[s].elems) : req[s].elems[i].err.kind = "SignerError"

\* C18: in SignAndExecuteTransaction signing is a barrier: no transaction is
\* submitted, and nothing is answered, until every transaction of the batch is
\* signed; and if a signing fails, the handler fails, no transaction of the
\* batch is ever submitted and no response envelope is sent.
C18_SigningIsBarrier ==
    \A s \in Slots :
        (Executed(s) /\ req[s].handler = HederaJsonRpcMethod.SignAndExecuteTransaction) =>
            /\ (\E i \in 1..Len(req[s].elems) : ~req[s].elems[i].tx.signed) =>
                  /\ req[s].stage = "sign"
                  /\ CallsOf(s) = {}
                  /\ ResponsesTo(s) = {}
                  /\ \A i \in 1..Len(req[s].elems) :
                        req[s].elems[i].st \in {"signing", "signed", "failed"}
            /\ SigningFailed(s) =>
                  /\ req[s].pc = "failed"
                  /\ req[s].thrown.kind = "SignerError"
                  /\ CallsOf(s) = {}
                  /\ ResponsesTo(s) = {}

\* the first signing of a batch of two failed, the second one completed later,
\* and nothing was submitted or answered
C18_Witness ==
    \E s \in Slots :
        /\ Executed(s) /\ req[s].handler = HederaJsonRpcMethod.SignAndExecuteTransaction
        /\ Len(req[s].elems) = 2
        /\ req[s].elems[1].err.kind = "SignerError"
        /\ req[s].elems[2].st = "signed"
        /\ req[s].pc = "failed"
        /\ CallsOf(s) = {} /\ outbox = <<>>

\* the per-element work of element i of s failed outside the submission
FailedOutsideSubmission(s, i) ==
    /\ req[s].elems[i].st = "failed"
    /\ req[s].elems[i].err.kind \in {"TypeError", "HashError"}

\* C19: ExecuteTransaction sends its response only after the submission of every
\* element has completed; and when the work of one element fails outside the
\* submission (no transactionId, no node account id, or no hash), the handler
\* fails without a response while the closures of the other elements go on:
\* their hashes still settle and their submissions are still issued.
C19_FailureDoesNotStopOthers ==
    \A s \in Slots :
        (Executed(s) /\ req[s].handler = HederaJsonRpcMethod.ExecuteTransaction) =>
            /\ ResponsesTo(s) # {} => AllSt(req[s], "done")
            /\ \A i \in 1..Len(req[s].elems) :
                  /\ FailedOutsideSubmission(s, i) =>
                        /\ req[s].pc = "failed"
                        /\ req[s].thrown.kind \in {"TypeError", "HashError"}
                        /\ ResponsesTo(s) = {}
                  /\ req[s].elems[i].st = "hashing" => ENABLED GetTransactionHashSettled(s, i)
                  /\ req[s].elems[i].st = "calling" => ENABLED CallSettled(s, i)
                  /\ req[s].elems[i].st \in {"calling", "done"} =>
                        SignerOp(s, "call", i, Batch(s)[i].name, Batch(s)[i].signed)
                            \in signerOps

\* the first transaction of a batch has no node account id: the handler failed
\* and sent nothing, and the second transaction was submitted and accepted
C19_Witness ==
    \E s \in Slots :
        /\ Executed(s) /\ req[s].handler = HederaJsonRpcMethod.ExecuteTransaction
        /\ Len(req[s].elems) = 2
        /\ Batch(s)[1].nodeAccountIds = <<>>
        /\ FailedOutsideSubmission(s, 1)
        /\ req[s].pc = "failed"
        /\ req[s].elems[2].outcome = "ok"
        /\ \E o \in CallsOf(s) : o.index = 2
        /\ outbox = <<>>

\* the error parseSessionRequest gives for a request of the builders
BuilderMismatch(method) ==
    IF method = HederaJsonRpcMethod.SignMessage
    THEN Err("INVALID_PARAMS", "message", -1, "string", "undefined")
    ELSE Err("INVALID_PARAMS", "transaction", -1, "array", "object")

\* C20: a request built by the builders of HederaSessionRequest is never
\* accepted by the parser: parseSessionRequest(event, true) fails with the
\* invalid-params error on `message` (expected string) for buildSignMessageRequest
\* and on `transaction` (expected array) for the transaction builders, and
\* executeSessionRequest fails with that error, invokes no signer operation and
\* sends no response.
C20_BuiltRequestsRefused ==
    \A s \in Slots :
        req[s].event \in BuiltRequests =>
            LET r == parseSessionRequest(req[s].event, TRUE)
            IN /\ r.threw
               /\ r.error = BuilderMismatch(Method(s))
               /\ Executed(s) =>
                     /\ req[s].parsed = r
                     /\ req[s].pc = "failed"
                     /\ req[s].thrown = BuilderMismatch(Method(s))
                     /\ ResponsesTo(s) = {}
                     /\ signerOps = {}

\* executeSessionRequest was called on a request of
\* buildSignAndReturnTransactionRequest for transaction txB
C20_Witness ==
    \E s \in Slots :
        /\ Executed(s)
        /\ req[s].event \in BuiltRequests
        /\ Method(s) = HederaJsonRpcMethod.SignTransaction
        /\ RequestParams(s).f.transaction = BytesObject("b64:txB")
        /\ req[s].pc = "failed"

====
